---- MODULE Spec2Model ----
(***************************************************************************)
(* Model of the rasterization server of lab3: drawHandler and the six      *)
(* rasterizers stepByStep, dda, bresenhamLine, bresenhamCircle,            *)
(* deCasteljau and wuLine.                                                 *)
(*                                                                         *)
(* Go's int is modelled by TLA+ integers (the coordinates are far from the *)
(* 64-bit limits).  Go's float64 is modelled bit-exactly as IEEE-754       *)
(* binary64 with round-to-nearest-even: a value is a record                *)
(*   [k |-> "fin", s |-> sign, m |-> mantissa, e |-> exponent]             *)
(* standing for (-1)^s * m * 2^e, where a nonzero mantissa always has      *)
(* exactly 53 bits and is held as a little-endian sequence of 14-bit       *)
(* limbs (TLC integers are 32 bits wide); k = "nan" and k = "inf" are the  *)
(* special values.  Exponents stay far from the subnormal and overflow     *)
(* ranges for the coordinates of the model.                                *)
(*                                                                         *)
(* Spec is the server handling one request; SpecBres runs bresenhamLine's  *)
(* loop one iteration at a time.                                           *)
(***************************************************************************)
EXTENDS Integers, Sequences, FiniteSets, TLC

VARIABLES
  req,      \* the request being served
  pc,       \* "request" before drawHandler has run, "done" after; in the
            \* line loop: "emit", "update", "done"
  resp,     \* the response written: status, whether a DrawResponse was
            \* encoded, and its points
  invoked,  \* the rasterizer drawHandler called, "none" if it called none
  cur,      \* bresenhamLine's local variables x1, y1 (as x, y), dx, dy, sx, sy, err
  out       \* bresenhamLine's points

\* ------------------------------------------------------------------------
\* Natural numbers of arbitrary size: little-endian limbs, no high zero limb
\* ------------------------------------------------------------------------
LimbBits == 14
Base == 2^LimbBits
MantBits == 53

RECURSIVE BTrim(_)
BTrim(a) ==
  IF a = <<>> THEN a
  ELSE IF a[Len(a)] = 0 THEN BTrim(SubSeq(a, 1, Len(a) - 1)) ELSE a

RECURSIVE BFromNat(_)
BFromNat(n) == IF n = 0 THEN <<>> ELSE <<n % Base>> \o BFromNat(n \div Base)

RECURSIVE BToNat(_)
BToNat(a) == IF a = <<>> THEN 0 ELSE Head(a) + Base * BToNat(Tail(a))

RECURSIVE BAddC(_, _, _)
BAddC(a, b, c) ==
  IF a = <<>> /\ b = <<>> THEN (IF c = 0 THEN <<>> ELSE <<c>>)
  ELSE LET x == IF a = <<>> THEN 0 ELSE Head(a)
           y == IF b = <<>> THEN 0 ELSE Head(b)
           s == x + y + c
       IN  <<s % Base>> \o BAddC(IF a = <<>> THEN a ELSE Tail(a),
                                 IF b = <<>> THEN b ELSE Tail(b), s \div Base)

BAdd(a, b) == BAddC(a, b, 0)

\* a - b for a >= b
RECURSIVE BSubB(_, _, _)
BSubB(a, b, br) ==
  IF a = <<>> THEN <<>>
  ELSE LET y == IF b = <<>> THEN 0 ELSE Head(b)
           d == Head(a) - y - br
       IN  <<IF d < 0 THEN d + Base ELSE d>>
             \o BSubB(Tail(a), IF b = <<>> THEN b ELSE Tail(b),
                      IF d < 0 THEN 1 ELSE 0)

BSub(a, b) == BTrim(BSubB(a, b, 0))

RECURSIVE BCmpAt(_, _, _)
BCmpAt(a, b, i) ==
  IF i = 0 THEN 0
  ELSE IF a[i] < b[i] THEN -1
  ELSE IF a[i] > b[i] THEN 1
  ELSE BCmpAt(a, b, i - 1)

\* -1, 0, 1 as a < b, a = b, a > b
BCmp(a, b) ==
  IF Len(a) < Len(b) THEN -1
  ELSE IF Len(a) > Len(b) THEN 1
  ELSE BCmpAt(a, b, Len(a))

RECURSIVE BMulSmallC(_, _, _)
BMulSmallC(a, k, c) ==
  IF a = <<>> THEN (IF c = 0 THEN <<>> ELSE <<c>>)
  ELSE LET s == Head(a) * k + c
       IN  <<s % Base>> \o BMulSmallC(Tail(a), k, s \div Base)

BMulSmall(a, k) == BTrim(BMulSmallC(a, k, 0))

RECURSIVE BMulR(_, _)
BMulR(a, b) ==
  IF b = <<>> THEN <<>>
  ELSE BAdd(BMulSmallC(a, Head(b), 0), <<0>> \o BMulR(a, Tail(b)))

BMul(a, b) == BTrim(BMulR(a, b))

BShl(a, n) ==
  IF a = <<>> THEN a
  ELSE [i \in 1..(n \div LimbBits) |-> 0] \o BMulSmall(a, 2^(n % LimbBits))

BShr(a, n) ==
  LET q == n \div LimbBits
      r == n % LimbBits
  IN  IF q >= Len(a) THEN <<>>
      ELSE LET t == SubSeq(a, q + 1, Len(a))
           IN  BTrim([i \in 1..Len(t) |->
                        (t[i] \div 2^r)
                        + (IF i < Len(t) THEN (t[i + 1] % 2^r) * 2^(LimbBits - r)
                                         ELSE 0)])

BitLenSmall(k) == CHOOSE n \in 1..LimbBits : 2^(n - 1) <= k /\ k < 2^n

BBitLen(a) ==
  IF a = <<>> THEN 0 ELSE LimbBits * (Len(a) - 1) + BitLenSmall(a[Len(a)])

BIsOdd(a) == a # <<>> /\ a[1] % 2 = 1

\* ------------------------------------------------------------------------
\* float64
\* ------------------------------------------------------------------------
\* The operators below are applied through the one recursive operator Run,
\* defined after them: name(args) applies the operator and nameImpl(args) is
\* what it computes. TLC then keeps its statistics of each of them once,
\* where a direct call would have it keep them once per path of calls.
RECURSIVE Run(_, _)
FRoundPack(s, M, e, sticky) == Run("FRoundPack", <<s, M, e, sticky>>)
FFromInt(n) == Run("FFromInt", <<n>>)
FAdd(x, y) == Run("FAdd", <<x, y>>)
FSub(x, y) == Run("FSub", <<x, y>>)
FMul(x, y) == Run("FMul", <<x, y>>)
FDiv(x, y) == Run("FDiv", <<x, y>>)
BDivLimb(r0, d) == Run("BDivLimb", <<r0, d>>)
mathFloor(x) == Run("mathFloor", <<x>>)
mathRound(x) == Run("mathRound", <<x>>)
FloorInt(x) == Run("FloorInt", <<x>>)
IntOf(x) == Run("IntOf", <<x>>)
bresenhamStart(x1, y1, x2, y2) == Run("bresenhamStart", <<x1, y1, x2, y2>>)
Rasterize(b) == Run("Rasterize", <<b>>)

FNaN == [k |-> "nan", s |-> 0, m |-> <<>>, e |-> 0]
FInf(s) == [k |-> "inf", s |-> s, m |-> <<>>, e |-> 0]
FZero(s) == [k |-> "fin", s |-> s, m |-> <<>>, e |-> 0]
FIsZero(x) == x.k = "fin" /\ x.m = <<>>

\* the float64 nearest to (-1)^s * (M + sticky) * 2^e, ties to even, where
\* sticky stands for a nonzero amount below the last bit of M
FRoundPackImpl(s, M, e, sticky) ==
  IF M = <<>> THEN FZero(s)
  ELSE LET bl == BBitLen(M) IN
    IF bl <= MantBits
    THEN [k |-> "fin", s |-> s, m |-> BShl(M, MantBits - bl), e |-> e - (MantBits - bl)]
    ELSE LET sh   == bl - MantBits
             q    == BShr(M, sh)
             rem  == BSub(M, BShl(q, sh))
             half == BShl(<<1>>, sh - 1)
             c    == BCmp(rem, half)
             up   == c > 0 \/ (c = 0 /\ (sticky \/ BIsOdd(q)))
             q2   == IF up THEN BAdd(q, <<1>>) ELSE q
         IN  IF BBitLen(q2) > MantBits
             THEN [k |-> "fin", s |-> s, m |-> BShr(q2, 1), e |-> e + sh + 1]
             ELSE [k |-> "fin", s |-> s, m |-> q2, e |-> e + sh]

\* float64(n) for an int n
FFromIntImpl(n) == FRoundPack(IF n < 0 THEN 1 ELSE 0, BFromNat(IF n < 0 THEN -n ELSE n), 0, FALSE)

FOne == FFromInt(1)
FHalf == [k |-> "fin", s |-> 0, m |-> FOne.m, e |-> FOne.e - 1]

FNeg(x) == [x EXCEPT !.s = 1 - x.s]
FAbs(x) == [x EXCEPT !.s = 0]

\* magnitudes of two nonzero finite values: -1, 0, 1
FCmpMag(x, y) ==
  IF x.e < y.e THEN -1 ELSE IF x.e > y.e THEN 1 ELSE BCmp(x.m, y.m)

\* x < y, x == y, x <= y (false when either is NaN)
FLt(x, y) ==
  IF x.k = "nan" \/ y.k = "nan" THEN FALSE
  ELSE IF x.k = "inf" \/ y.k = "inf"
       THEN (x.k = "inf" /\ x.s = 1 /\ ~(y.k = "inf" /\ y.s = 1))
            \/ (y.k = "inf" /\ y.s = 0 /\ ~(x.k = "inf" /\ x.s = 0))
  ELSE IF FIsZero(x) THEN (~FIsZero(y) /\ y.s = 0)
  ELSE IF FIsZero(y) THEN x.s = 1
  ELSE IF x.s # y.s THEN x.s = 1
  ELSE IF x.s = 0 THEN FCmpMag(x, y) < 0 ELSE FCmpMag(x, y) > 0

FEq(x, y) ==
  IF x.k = "nan" \/ y.k = "nan" THEN FALSE
  ELSE IF FIsZero(x) /\ FIsZero(y) THEN TRUE
  ELSE x = y

FLe(x, y) == FLt(x, y) \/ FEq(x, y)
FGt(x, y) == FLt(y, x)
FGe(x, y) == FLe(y, x)

MaxAlign == 64

\* x + y
FAddImpl(x, y) ==
  IF x.k = "nan" \/ y.k = "nan" THEN FNaN
  ELSE IF x.k = "inf" THEN (IF y.k = "inf" /\ y.s # x.s THEN FNaN ELSE x)
  ELSE IF y.k = "inf" THEN y
  ELSE IF FIsZero(x) THEN (IF FIsZero(y) THEN FZero(IF x.s = 1 /\ y.s = 1 THEN 1 ELSE 0) ELSE y)
  ELSE IF FIsZero(y) THEN x
  ELSE LET big   == IF FCmpMag(x, y) >= 0 THEN x ELSE y
           small == IF FCmpMag(x, y) >= 0 THEN y ELSE x
           d     == big.e - small.e
           far   == d > MaxAlign
           \* far below the last bit of big, small only decides the rounding
           e0    == IF far THEN big.e - MaxAlign ELSE small.e
           Mb    == BShl(big.m, big.e - e0)
           Ms    == IF far THEN <<1>> ELSE small.m
       IN  IF big.s = small.s
           THEN FRoundPack(big.s, BAdd(Mb, Ms), e0, FALSE)
           ELSE IF Mb = Ms THEN FZero(0)
                ELSE FRoundPack(big.s, BSub(Mb, Ms), e0, FALSE)

FSubImpl(x, y) == FAdd(x, FNeg(y))

\* x * y
FMulImpl(x, y) ==
  LET s == IF x.s = y.s THEN 0 ELSE 1 IN
  IF x.k = "nan" \/ y.k = "nan" THEN FNaN
  ELSE IF x.k = "inf" \/ y.k = "inf"
       THEN (IF FIsZero(x) \/ FIsZero(y) THEN FNaN ELSE FInf(s))
  ELSE IF FIsZero(x) \/ FIsZero(y) THEN FZero(s)
  ELSE FRoundPack(s, BMul(x.m, y.m), x.e + y.e, FALSE)

\* one limb of a quotient: <<q, r>> with r0 * Base = q * d + r and r < d,
\* for r0 < d and d of MantBits bits; q is estimated from the leading bits
\* of r0 and d, which is off by at most one, and then corrected
BDivLimbImpl(r0, d) ==
  LET N  == BShl(r0, LimbBits)
      qh == BToNat(BShr(r0, 23)) \div BToNat(BShr(d, 37))
      q  == IF BCmp(BMulSmall(d, qh + 1), N) <= 0 THEN qh + 1
            ELSE IF BCmp(BMulSmall(d, qh), N) <= 0 THEN qh
            ELSE qh - 1
  IN  <<q, BSub(N, BMulSmall(d, q))>>

QuotBits == 4 * LimbBits

\* x / y
FDivImpl(x, y) ==
  LET s == IF x.s = y.s THEN 0 ELSE 1 IN
  IF x.k = "nan" \/ y.k = "nan" THEN FNaN
  ELSE IF x.k = "inf" THEN (IF y.k = "inf" THEN FNaN ELSE FInf(s))
  ELSE IF y.k = "inf" THEN FZero(s)
  ELSE IF FIsZero(y) THEN (IF FIsZero(x) THEN FNaN ELSE FInf(s))
  ELSE IF FIsZero(x) THEN FZero(s)
  ELSE LET ge == BCmp(x.m, y.m) >= 0
           r0 == IF ge THEN BSub(x.m, y.m) ELSE x.m
           c1 == BDivLimb(r0, y.m)
           c2 == BDivLimb(c1[2], y.m)
           c3 == BDivLimb(c2[2], y.m)
           c4 == BDivLimb(c3[2], y.m)
           q  == BTrim(<<c4[1], c3[1], c2[1], c1[1], IF ge THEN 1 ELSE 0>>)
       IN  FRoundPack(s, q, x.e - y.e - QuotBits, c4[2] # <<>>)

\* the largest integer <= x, as an int (x finite, in int range)
FloorIntImpl(x) ==
  IF FIsZero(x) THEN 0
  ELSE LET q    == IF x.e >= 0 THEN BShl(x.m, x.e) ELSE BShr(x.m, -x.e)
           frac == x.e < 0 /\ BShl(q, -x.e) # x.m
           n    == BToNat(q)
       IN  IF x.s = 0 THEN n ELSE IF frac THEN -n - 1 ELSE -n

\* math.Floor(x)
mathFloorImpl(x) ==
  IF x.k # "fin" \/ FIsZero(x) THEN x
  ELSE LET n == FloorInt(x) IN IF n = 0 THEN FZero(x.s) ELSE FFromInt(n)

\* math.Round(x): nearest integer, halves away from zero
mathRoundImpl(x) ==
  IF x.k # "fin" \/ FIsZero(x) THEN x
  ELSE LET a == FAbs(x)
           n == FloorInt(a)
           f == FSub(a, FFromInt(n))
           r == IF FGe(f, FHalf) THEN n + 1 ELSE n
       IN  IF r = 0 THEN FZero(x.s) ELSE FFromInt(IF x.s = 1 THEN -r ELSE r)

\* math.Abs(x)
mathAbs(x) == FAbs(x)

\* int(x) for a finite float64: truncation toward zero
IntOfImpl(x) ==
  IF FIsZero(x) THEN 0
  ELSE LET n == FloorInt(FAbs(x)) IN IF x.s = 1 THEN -n ELSE n

\* ------------------------------------------------------------------------
\* Exact arithmetic. The line rasterizers stepByStep and dda are written
\* once, over an arithmetic ar: "float64" is the arithmetic of the program,
\* and every action of the model uses it; "exact" is the arithmetic of the
\* rational numbers, in which no operation rounds, used only to state what
\* the same computation yields under that premise. A rational is [n, d]
\* with d > 0 in lowest terms; d = 0 marks the undefined quotient x / 0,
\* which every operation hands on.
\* ------------------------------------------------------------------------
RECURSIVE GCD(_, _)
GCD(a, b) == IF b = 0 THEN a ELSE GCD(b, a % b)

RUndef == [n |-> 0, d |-> 0]

\* n / d in lowest terms, d # 0
RNorm(n, d) ==
  LET an == IF n < 0 THEN -n ELSE n
      ad == IF d < 0 THEN -d ELSE d
      g  == GCD(an, ad)
  IN  [n |-> (IF d < 0 THEN -n ELSE n) \div g, d |-> ad \div g]

\* float64(n)
RFromInt(n) == [n |-> n, d |-> 1]

RAdd(a, b) ==
  IF a.d = 0 \/ b.d = 0 THEN RUndef ELSE RNorm(a.n * b.d + b.n * a.d, a.d * b.d)

RSub(a, b) ==
  IF a.d = 0 \/ b.d = 0 THEN RUndef ELSE RNorm(a.n * b.d - b.n * a.d, a.d * b.d)

RMul(a, b) ==
  IF a.d = 0 \/ b.d = 0 THEN RUndef ELSE RNorm(a.n * b.n, a.d * b.d)

RDiv(a, b) ==
  IF a.d = 0 \/ b.d = 0 \/ b.n = 0 THEN RUndef ELSE RNorm(a.n * b.d, a.d * b.n)

\* math.Abs(x)
RAbs(a) == [n |-> IF a.n < 0 THEN -a.n ELSE a.n, d |-> a.d]

\* a > b and a >= b
RGt(a, b) == a.d # 0 /\ b.d # 0 /\ a.n * b.d > b.n * a.d
RGe(a, b) == a.d # 0 /\ b.d # 0 /\ a.n * b.d >= b.n * a.d

\* math.Round(x): the nearest integer, halves away from zero
RRound(a) ==
  IF a.d = 0 THEN RUndef
  ELSE LET an == IF a.n < 0 THEN -a.n ELSE a.n
           n  == an \div a.d
           r  == IF 2 * (an - n * a.d) >= a.d THEN n + 1 ELSE n
       IN  RFromInt(IF a.n < 0 THEN -r ELSE r)

\* int(x): truncation toward zero
RInt(a) ==
  LET an == IF a.n < 0 THEN -a.n ELSE a.n
      n  == an \div a.d
  IN  IF a.n < 0 THEN -n ELSE n

\* float64(n)
float64(ar, n) == IF ar = "float64" THEN FFromInt(n) ELSE RFromInt(n)

\* x + y, x - y, x * y, x / y
Add(ar, x, y) == IF ar = "float64" THEN FAdd(x, y) ELSE RAdd(x, y)
Sub(ar, x, y) == IF ar = "float64" THEN FSub(x, y) ELSE RSub(x, y)
Mul(ar, x, y) == IF ar = "float64" THEN FMul(x, y) ELSE RMul(x, y)
Quo(ar, x, y) == IF ar = "float64" THEN FDiv(x, y) ELSE RDiv(x, y)

\* x > y, x >= y
Gt(ar, x, y) == IF ar = "float64" THEN FGt(x, y) ELSE RGt(x, y)
Ge(ar, x, y) == IF ar = "float64" THEN FGe(x, y) ELSE RGe(x, y)

\* math.Abs(x), math.Round(x), int(x)
Fabs(ar, x) == IF ar = "float64" THEN mathAbs(x) ELSE RAbs(x)
Round(ar, x) == IF ar = "float64" THEN mathRound(x) ELSE RRound(x)
int(ar, x) == IF ar = "float64" THEN IntOf(x) ELSE RInt(x)

\* ------------------------------------------------------------------------
\* Point and the rasterizers
\* ------------------------------------------------------------------------

\* Point{X: x, Y: y}: the Alpha field is left at its zero value
Point(x, y) == [X |-> x, Y |-> y, Alpha |-> FZero(0)]

\* Point{X: x, Y: y, Alpha: c}
PointA(x, y, c) == [X |-> x, Y |-> y, Alpha |-> c]

\* --- 1. stepByStep: y = kx + b ---
\* stepVertical without the exchange of startY and endY
stepVerticalNoSwap(x1, y1, y2) ==
  [i \in 1..(y2 - y1 + 1) |-> Point(x1, y1 + i - 1)]

\* the branch  if dx == 0: the vertical line
stepVertical(x1, y1, y2) ==
  LET startY == IF y1 > y2 THEN y2 ELSE y1
      endY   == IF y1 > y2 THEN y1 ELSE y2
  IN  [i \in 1..(endY - startY + 1) |-> Point(x1, startY + i - 1)]

\* stepShallow without math.Round: y := int(k*float64(x) + b)
stepShallowTrunc(ar, x1, x2, k, b) ==
  LET step == IF x2 < x1 THEN -1 ELSE 1
  IN  [i \in 1..((x2 - x1) * step + 1) |->
         LET x == x1 + (i - 1) * step
         IN  Point(x, int(ar, Add(ar, Mul(ar, k, float64(ar, x)), b)))]

\* the loop over x, for |dx| >= |dy|
stepShallow(ar, x1, x2, k, b) ==
  LET step == IF x2 < x1 THEN -1 ELSE 1
  IN  [i \in 1..((x2 - x1) * step + 1) |->
         LET x == x1 + (i - 1) * step
         IN  Point(x, int(ar, Round(ar, Add(ar, Mul(ar, k, float64(ar, x)), b))))]

\* the loop over y, for a steep line
stepSteep(ar, y1, y2, k, b) ==
  LET step == IF y2 < y1 THEN -1 ELSE 1
  IN  [i \in 1..((y2 - y1) * step + 1) |->
         LET y == y1 + (i - 1) * step
         IN  Point(int(ar, Round(ar, Quo(ar, Sub(ar, float64(ar, y), b), k))), y)]

\* the body of stepByStep over the arithmetic ar
stepByStepIn(ar, x1, y1, x2, y2) ==
  LET dx == x2 - x1
      dy == y2 - y1
  IN  IF dx = 0 THEN stepVertical(x1, y1, y2)
      ELSE LET k == Quo(ar, float64(ar, dy), float64(ar, dx))
               b == Sub(ar, float64(ar, y1), Mul(ar, k, float64(ar, x1)))
           IN  IF Ge(ar, Fabs(ar, float64(ar, dx)), Fabs(ar, float64(ar, dy)))
               THEN stepShallow(ar, x1, x2, k, b)
               ELSE stepSteep(ar, y1, y2, k, b)

\* stepByStep as the program computes it
stepByStep(x1, y1, x2, y2) == stepByStepIn("float64", x1, y1, x2, y2)

\* --- 2. dda ---
\* ddaLoop with the bound  i < int(steps)
RECURSIVE ddaLoopExclusive(_, _, _, _, _)
ddaLoopExclusive(ar, st, last, xInc, yInc) ==
  IF ~(st.i < last) THEN st.points
  ELSE ddaLoopExclusive(ar,
                        [i      |-> st.i + 1,
                         x      |-> Add(ar, st.x, xInc),
                         y      |-> Add(ar, st.y, yInc),
                         points |-> Append(st.points,
                                           Point(int(ar, Round(ar, st.x)),
                                                 int(ar, Round(ar, st.y))))],
                        last, xInc, yInc)

\* the loop  for i := 0; i <= int(steps); i++  from the loop state st on,
\* st holding i, x, y and points
RECURSIVE ddaLoop(_, _, _, _, _)
ddaLoop(ar, st, last, xInc, yInc) ==
  IF ~(st.i <= last) THEN st.points
  ELSE ddaLoop(ar,
               [i      |-> st.i + 1,
                x      |-> Add(ar, st.x, xInc),
                y      |-> Add(ar, st.y, yInc),
                points |-> Append(st.points,
                                  Point(int(ar, Round(ar, st.x)),
                                        int(ar, Round(ar, st.y))))],
               last, xInc, yInc)

\* the body of dda over the arithmetic ar
ddaIn(ar, x1, y1, x2, y2) ==
  LET dx    == x2 - x1
      dy    == y2 - y1
      steps == IF Gt(ar, Fabs(ar, float64(ar, dx)), Fabs(ar, float64(ar, dy)))
               THEN Fabs(ar, float64(ar, dx)) ELSE Fabs(ar, float64(ar, dy))
      xInc  == Quo(ar, float64(ar, dx), steps)
      yInc  == Quo(ar, float64(ar, dy), steps)
  IN  ddaLoop(ar, [i |-> 0, x |-> float64(ar, x1), y |-> float64(ar, y1), points |-> <<>>],
              int(ar, steps), xInc, yInc)

\* dda as the program computes it
dda(x1, y1, x2, y2) == ddaIn("float64", x1, y1, x2, y2)

\* --- 3. bresenhamLine ---
\* bresenhamStart with  err := dx + dy
bresenhamStartErrSum(x1, y1, x2, y2) ==
  LET dx == IntOf(mathAbs(FFromInt(x2 - x1)))
      dy == IntOf(mathAbs(FFromInt(y2 - y1)))
  IN  [x |-> x1, y |-> y1, dx |-> dx, dy |-> dy,
       sx |-> IF x1 > x2 THEN -1 ELSE 1,
       sy |-> IF y1 > y2 THEN -1 ELSE 1,
       err |-> dx + dy]

\* the local variables on entry to the loop; x and y stand for the
\* parameters x1 and y1, which the loop moves
bresenhamStartImpl(x1, y1, x2, y2) ==
  LET dx == IntOf(mathAbs(FFromInt(x2 - x1)))
      dy == IntOf(mathAbs(FFromInt(y2 - y1)))
  IN  [x |-> x1, y |-> y1, dx |-> dx, dy |-> dy,
       sx |-> IF x1 > x2 THEN -1 ELSE 1,
       sy |-> IF y1 > y2 THEN -1 ELSE 1,
       err |-> dx - dy]

\* bresenhamStep with  err += dy  for  err += dx
bresenhamStepErrDy(st) ==
  LET e2 == 2 * st.err
      mx == e2 > -st.dy
      my == e2 < st.dx
  IN  [st EXCEPT !.x   = IF mx THEN st.x + st.sx ELSE st.x,
                 !.y   = IF my THEN st.y + st.sy ELSE st.y,
                 !.err = st.err - (IF mx THEN st.dy ELSE 0) + (IF my THEN st.dy ELSE 0)]

\* bresenhamStep with  e2 > dy  for  e2 > -dy
bresenhamStepNoNeg(st) ==
  LET e2 == 2 * st.err
      mx == e2 > st.dy
      my == e2 < st.dx
  IN  [st EXCEPT !.x   = IF mx THEN st.x + st.sx ELSE st.x,
                 !.y   = IF my THEN st.y + st.sy ELSE st.y,
                 !.err = st.err - (IF mx THEN st.dy ELSE 0) + (IF my THEN st.dx ELSE 0)]

\* the local variables after one pass of the loop body that did not break
bresenhamStep(st) ==
  LET e2 == 2 * st.err
      mx == e2 > -st.dy
      my == e2 < st.dx
  IN  [st EXCEPT !.x   = IF mx THEN st.x + st.sx ELSE st.x,
                 !.y   = IF my THEN st.y + st.sy ELSE st.y,
                 !.err = st.err - (IF mx THEN st.dy ELSE 0) + (IF my THEN st.dx ELSE 0)]

MaxLoop == 40

\* the loop  for { ... }  from the local variables st on; a loop that has
\* not reached the break after MaxLoop points is cut off
RECURSIVE bresenhamLoop(_, _, _, _)
bresenhamLoop(st, x2, y2, points) ==
  LET pts == Append(points, Point(st.x, st.y))
  IN  IF (st.x = x2 /\ st.y = y2) \/ Len(pts) >= MaxLoop THEN pts
      ELSE bresenhamLoop(bresenhamStep(st), x2, y2, pts)

bresenhamLine(x1, y1, x2, y2) ==
  bresenhamLoop(bresenhamStart(x1, y1, x2, y2), x2, y2, <<>>)

\* --- 4. bresenhamCircle ---
addPoints(xc, yc, x, y) ==
  << Point(xc + x, yc + y), Point(xc - x, yc + y),
     Point(xc + x, yc - y), Point(xc - x, yc - y),
     Point(xc + y, yc + x), Point(xc - y, yc + x),
     Point(xc + y, yc - x), Point(xc - y, yc - x) >>

\* circleLoop without  y--  in the branch d > 0
RECURSIVE circleLoopKeepY(_, _, _, _, _, _)
circleLoopKeepY(xc, yc, x, y, d, points) ==
  IF ~(y >= x) THEN points
  ELSE LET x2 == x + 1
           d2 == IF d > 0 THEN d + 4 * (x2 - y) + 10 ELSE d + 4 * x2 + 6
       IN  circleLoopKeepY(xc, yc, x2, y, d2, points \o addPoints(xc, yc, x2, y))

\* the loop  for y >= x
RECURSIVE circleLoop(_, _, _, _, _, _)
circleLoop(xc, yc, x, y, d, points) ==
  IF ~(y >= x) THEN points
  ELSE LET x2 == x + 1
           y2 == IF d > 0 THEN y - 1 ELSE y
           d2 == IF d > 0 THEN d + 4 * (x2 - y2) + 10 ELSE d + 4 * x2 + 6
       IN  circleLoop(xc, yc, x2, y2, d2, points \o addPoints(xc, yc, x2, y2))

bresenhamCircle(xc, yc, r) ==
  circleLoop(xc, yc, 0, r, 3 - 2 * r, addPoints(xc, yc, 0, r))

\* --- 5. deCasteljau ---
\* step := 0.005
casteljauStep == FDiv(FFromInt(5), FFromInt(1000))

\* a + (b - a) * t
lerp(a, b, t) == FAdd(a, FMul(FSub(b, a), t))

\* the point appended by one pass of the loop body, at parameter t
casteljauPoint(x1, y1, x2, y2, x3, y3, x4, y4, t) ==
  LET q0x == lerp(FFromInt(x1), FFromInt(x2), t)
      q0y == lerp(FFromInt(y1), FFromInt(y2), t)
      q1x == lerp(FFromInt(x2), FFromInt(x3), t)
      q1y == lerp(FFromInt(y2), FFromInt(y3), t)
      q2x == lerp(FFromInt(x3), FFromInt(x4), t)
      q2y == lerp(FFromInt(y3), FFromInt(y4), t)
      r0x == lerp(q0x, q1x, t)
      r0y == lerp(q0y, q1y, t)
      r1x == lerp(q1x, q2x, t)
      r1y == lerp(q1y, q2y, t)
      bx  == lerp(r0x, r1x, t)
      by  == lerp(r0y, r1y, t)
  IN  Point(IntOf(mathRound(bx)), IntOf(mathRound(by)))

\* the values t takes in the loop  for t := 0.0; t <= 1.0; t += step:
\* ts, the values reached so far, extended by at most n further values
RECURSIVE casteljauMore(_, _)
casteljauMore(ts, n) ==
  LET t == FAdd(ts[Len(ts)], casteljauStep)
  IN  IF n = 0 \/ ~FLe(t, FOne) THEN ts ELSE casteljauMore(Append(ts, t), n - 1)

BlockLen == 16

\* the loop is unrolled BlockLen passes at a time
RECURSIVE casteljauFrom(_)
casteljauFrom(ts) ==
  LET more == casteljauMore(ts, BlockLen)
  IN  IF Len(more) = Len(ts) THEN ts ELSE casteljauFrom(more)

\* every value of t the loop body runs with, in order (0.0 <= 1.0 holds)
casteljauParams == casteljauFrom(<<FZero(0)>>)

deCasteljau(x1, y1, x2, y2, x3, y3, x4, y4) ==
  [i \in 1..Len(casteljauParams) |->
     casteljauPoint(x1, y1, x2, y2, x3, y3, x4, y4, casteljauParams[i])]

\* --- 6. wuLine ---
ipart(x) == IntOf(mathFloor(x))
\* fpart with truncation toward zero for math.Floor
fpartTrunc(x) == FSub(x, FFromInt(IntOf(x)))

fpart(x) == FSub(x, mathFloor(x))
rfpart(x) == FSub(FOne, fpart(x))

\* round(x) = int(math.Floor(x + 0.5))
round(x) == IntOf(mathFloor(FAdd(x, FHalf)))

\* plot(x, y, c), with x and y exchanged back for a steep line
plot(steep, x, y, c) == IF steep THEN PointA(y, x, c) ELSE PointA(x, y, c)

\* wuLoop with the two alphas exchanged
RECURSIVE wuLoopSwapped(_, _, _, _)
wuLoopSwapped(st, steep, xPixel2, gradient) ==
  IF ~(st.x < xPixel2) THEN st.points
  ELSE wuLoopSwapped([x      |-> st.x + 1,
                      intery |-> FAdd(st.intery, gradient),
                      points |-> st.points \o
                                 << plot(steep, st.x, ipart(st.intery), fpart(st.intery)),
                                    plot(steep, st.x, ipart(st.intery) + 1, rfpart(st.intery)) >>],
                     steep, xPixel2, gradient)

\* wuLoop with rfpart(intery) as the alpha of both samples
RECURSIVE wuLoopBothRf(_, _, _, _)
wuLoopBothRf(st, steep, xPixel2, gradient) ==
  IF ~(st.x < xPixel2) THEN st.points
  ELSE wuLoopBothRf([x      |-> st.x + 1,
                     intery |-> FAdd(st.intery, gradient),
                     points |-> st.points \o
                                << plot(steep, st.x, ipart(st.intery), rfpart(st.intery)),
                                   plot(steep, st.x, ipart(st.intery) + 1, rfpart(st.intery)) >>],
                    steep, xPixel2, gradient)

\* the main loop  for x := xPixel1 + 1; x < xPixel2; x++  from the loop
\* state st on, st holding x, intery and points
RECURSIVE wuLoop(_, _, _, _)
wuLoop(st, steep, xPixel2, gradient) ==
  IF ~(st.x < xPixel2) THEN st.points
  ELSE wuLoop([x      |-> st.x + 1,
               intery |-> FAdd(st.intery, gradient),
               points |-> st.points \o
                          << plot(steep, st.x, ipart(st.intery), rfpart(st.intery)),
                             plot(steep, st.x, ipart(st.intery) + 1, fpart(st.intery)) >>],
              steep, xPixel2, gradient)

wuLine(ax1, ay1, ax2, ay2) ==
  LET steep == FGt(mathAbs(FFromInt(ay2 - ay1)), mathAbs(FFromInt(ax2 - ax1)))
      \* after  if steep { swap x and y }
      bx1 == IF steep THEN ay1 ELSE ax1
      by1 == IF steep THEN ax1 ELSE ay1
      bx2 == IF steep THEN ay2 ELSE ax2
      by2 == IF steep THEN ax2 ELSE ay2
      \* after  if x2 < x1 { swap the endpoints }
      x1 == IF bx2 < bx1 THEN bx2 ELSE bx1
      y1 == IF bx2 < bx1 THEN by2 ELSE by1
      x2 == IF bx2 < bx1 THEN bx1 ELSE bx2
      y2 == IF bx2 < bx1 THEN by1 ELSE by2
      dx == FFromInt(x2 - x1)
      dy == FFromInt(y2 - y1)
      gradient == IF FEq(dx, FZero(0)) THEN FOne ELSE FDiv(dy, dx)
      \* first endpoint
      xEnd  == round(FFromInt(x1))
      yEnd  == FAdd(FFromInt(y1), FMul(gradient, FSub(FFromInt(xEnd), FFromInt(x1))))
      xGap  == rfpart(FAdd(FFromInt(x1), FHalf))
      xPixel1 == xEnd
      yPixel1 == ipart(yEnd)
      first == << plot(steep, xPixel1, yPixel1, FMul(rfpart(yEnd), xGap)),
                  plot(steep, xPixel1, yPixel1 + 1, FMul(fpart(yEnd), xGap)) >>
      intery == FAdd(yEnd, gradient)
      \* second endpoint
      xEnd2 == round(FFromInt(x2))
      yEnd2 == FAdd(FFromInt(y2), FMul(gradient, FSub(FFromInt(xEnd2), FFromInt(x2))))
      xGap2 == fpart(FAdd(FFromInt(x2), FHalf))
      xPixel2 == xEnd2
      yPixel2 == ipart(yEnd2)
      second == << plot(steep, xPixel2, yPixel2, FMul(rfpart(yEnd2), xGap2)),
                   plot(steep, xPixel2, yPixel2 + 1, FMul(fpart(yEnd2), xGap2)) >>
  IN  wuLoop([x |-> xPixel1 + 1, intery |-> intery, points |-> first \o second],
             steep, xPixel2, gradient)

\* ------------------------------------------------------------------------
\* The server: one request handled by drawHandler
\* ------------------------------------------------------------------------
MaxCoord == 2
MaxLine == 3
MaxCenter == 1
MaxRadius == 12
MaxCurve == 3

Coord == -MaxCoord..MaxCoord
LongCoord == -MaxLine..MaxLine

\* DrawRequest
DrawRequest(alg, x1, y1, x2, y2, x3, y3, x4, y4, r) ==
  [Algorithm |-> alg, X1 |-> x1, Y1 |-> y1, X2 |-> x2, Y2 |-> y2,
   X3 |-> x3, Y3 |-> y3, X4 |-> x4, Y4 |-> y4, R |-> r]

LineAlgorithms == {"step", "dda", "bresenham_line", "wu"}
Algorithms == LineAlgorithms \cup {"bresenham_circle", "casteljau"}
UnknownAlgorithms == {"", "bresenham", "Wu"}

\* lines for stepByStep and dda have their coordinates in LongCoord, lines
\* for bresenhamLine and wuLine in Coord
LineBodies ==
  {DrawRequest(a, x1, y1, x2, y2, 0, 0, 0, 0, 0) :
     a \in {"step", "dda"},
     x1 \in LongCoord, y1 \in LongCoord, x2 \in LongCoord, y2 \in LongCoord}
    \cup {DrawRequest(a, x1, y1, x2, y2, 0, 0, 0, 0, 0) :
            a \in {"bresenham_line", "wu"},
            x1 \in Coord, y1 \in Coord, x2 \in Coord, y2 \in Coord}

CircleBodies ==
  {DrawRequest("bresenham_circle", xc, yc, 0, 0, 0, 0, 0, 0, r) :
     xc \in -MaxCenter..MaxCenter, yc \in -MaxCenter..MaxCenter, r \in 0..MaxRadius}

CurveBodies ==
  {DrawRequest("casteljau", 0, 0, x2, MaxCurve, MaxCurve, y3, MaxCurve, 0, 0) :
     x2 \in {-MaxCurve, MaxCurve}, y3 \in {-MaxCurve, MaxCurve}}

UnknownBodies ==
  {DrawRequest(a, 0, 0, x2, y2, 0, 0, 0, 0, r) :
     a \in UnknownAlgorithms, x2 \in {0, MaxCoord}, y2 \in {0, MaxCoord}, r \in {0, MaxRadius}}

Bodies == LineBodies \cup CircleBodies \cup CurveBodies \cup UnknownBodies

\* an HTTP request: its method, whether its body decodes into a DrawRequest,
\* and the DrawRequest it decodes into
Requests ==
  [Method : {"POST"}, Decodes : {TRUE}, Body : Bodies]
    \cup [Method : {"GET", "POST"}, Decodes : {FALSE},
          Body : {DrawRequest("", 0, 0, 0, 0, 0, 0, 0, 0, 0)}]
    \cup [Method : {"GET"}, Decodes : {TRUE}, Body : CircleBodies \cup UnknownBodies]

StatusOK == 200
StatusBadRequest == 400
StatusMethodNotAllowed == 405

vars == <<req, pc, resp, invoked, cur, out>>

NoResponse == [status |-> 0, json |-> FALSE, points |-> <<>>]

\* http.Error(w, msg, code)
ErrorResponse(code) == [status |-> code, json |-> FALSE, points |-> <<>>]

\* json.NewEncoder(w).Encode(DrawResponse{Points: points, TimeNs: duration});
\* the elapsed time is not part of the model
DrawResponse(points) == [status |-> StatusOK, json |-> TRUE, points |-> points]

NoLoop == [x |-> 0, y |-> 0, dx |-> 0, dy |-> 0, sx |-> 1, sy |-> 1, err |-> 0]

Init ==
  /\ req \in Requests
  /\ pc = "request"
  /\ resp = NoResponse
  /\ invoked = "none"
  /\ cur = NoLoop
  /\ out = <<>>

\* Rasterize with the case "dda" calling stepByStep
RasterizeDdaAsStep(b) ==
  CASE b.Algorithm = "step" -> stepByStep(b.X1, b.Y1, b.X2, b.Y2)
    [] b.Algorithm = "dda" -> stepByStep(b.X1, b.Y1, b.X2, b.Y2)
    [] b.Algorithm = "bresenham_line" -> bresenhamLine(b.X1, b.Y1, b.X2, b.Y2)
    [] b.Algorithm = "bresenham_circle" -> bresenhamCircle(b.X1, b.Y1, b.R)
    [] b.Algorithm = "casteljau" ->
         deCasteljau(b.X1, b.Y1, b.X2, b.Y2, b.X3, b.Y3, b.X4, b.Y4)
    [] b.Algorithm = "wu" -> wuLine(b.X1, b.Y1, b.X2, b.Y2)

\* the switch of drawHandler: the points of the selected rasterizer
RasterizeImpl(b) ==
  CASE b.Algorithm = "step" -> stepByStep(b.X1, b.Y1, b.X2, b.Y2)
    [] b.Algorithm = "dda" -> dda(b.X1, b.Y1, b.X2, b.Y2)
    [] b.Algorithm = "bresenham_line" -> bresenhamLine(b.X1, b.Y1, b.X2, b.Y2)
    [] b.Algorithm = "bresenham_circle" -> bresenhamCircle(b.X1, b.Y1, b.R)
    [] b.Algorithm = "casteljau" ->
         deCasteljau(b.X1, b.Y1, b.X2, b.Y2, b.X3, b.Y3, b.X4, b.Y4)
    [] b.Algorithm = "wu" -> wuLine(b.X1, b.Y1, b.X2, b.Y2)

\* the operator applied through Run, by name, to its arguments a
Run(op, a) ==
  CASE op = "FRoundPack" -> FRoundPackImpl(a[1], a[2], a[3], a[4])
    [] op = "FFromInt" -> FFromIntImpl(a[1])
    [] op = "FAdd" -> FAddImpl(a[1], a[2])
    [] op = "FSub" -> FSubImpl(a[1], a[2])
    [] op = "FMul" -> FMulImpl(a[1], a[2])
    [] op = "FDiv" -> FDivImpl(a[1], a[2])
    [] op = "BDivLimb" -> BDivLimbImpl(a[1], a[2])
    [] op = "mathFloor" -> mathFloorImpl(a[1])
    [] op = "mathRound" -> mathRoundImpl(a[1])
    [] op = "FloorInt" -> FloorIntImpl(a[1])
    [] op = "IntOf" -> IntOfImpl(a[1])
    [] op = "bresenhamStart" -> bresenhamStartImpl(a[1], a[2], a[3], a[4])
    [] op = "Rasterize" -> RasterizeImpl(a[1])

\* the names the switch of drawHandler has a case for
Recognised(alg) == alg \in Algorithms

drawHandler ==
  /\ pc = "request"
  /\ pc' = "done"
  /\ UNCHANGED <<req, cur, out>>
  /\ IF req.Method # "POST"
     THEN /\ resp' = ErrorResponse(StatusMethodNotAllowed)
          /\ invoked' = "none"
     ELSE IF ~req.Decodes
     THEN /\ resp' = ErrorResponse(StatusBadRequest)
          /\ invoked' = "none"
     ELSE IF ~Recognised(req.Body.Algorithm)
     THEN /\ resp' = ErrorResponse(StatusBadRequest)
          /\ invoked' = "none"
     ELSE /\ invoked' = req.Body.Algorithm
          /\ resp' = DrawResponse(Rasterize(req.Body))

Next == drawHandler

Spec == Init /\ [][Next]_vars

\* ------------------------------------------------------------------------
\* bresenhamLine, one pass of its loop at a time
\* ------------------------------------------------------------------------
BresBodies == {b \in LineBodies : b.Algorithm = "bresenham_line"}

InitBres ==
  /\ req \in [Method : {"POST"}, Decodes : {TRUE}, Body : BresBodies]
  /\ pc = "emit"
  /\ resp = NoResponse
  /\ invoked = "bresenham_line"
  /\ cur = bresenhamStart(req.Body.X1, req.Body.Y1, req.Body.X2, req.Body.Y2)
  /\ out = <<>>

\* points = append(points, Point{X: x1, Y: y1}); if x1 == x2 && y1 == y2 { break }
BresEmit ==
  /\ pc = "emit"
  /\ Len(out) < MaxLoop
  /\ out' = Append(out, Point(cur.x, cur.y))
  /\ pc' = IF cur.x = req.Body.X2 /\ cur.y = req.Body.Y2 THEN "done" ELSE "update"
  /\ UNCHANGED <<req, resp, invoked, cur>>

\* e2 := 2 * err and the two conditional moves
BresUpdate ==
  /\ pc = "update"
  /\ cur' = bresenhamStep(cur)
  /\ pc' = "emit"
  /\ UNCHANGED <<req, resp, invoked, out>>

NextBres == BresEmit \/ BresUpdate

\* the loop is sequential code: it keeps running until it breaks
SpecBres == InitBres /\ [][NextBres]_vars /\ WF_vars(NextBres)

TypeOK ==
  /\ req \in Requests
  /\ pc \in {"request", "done", "emit", "update"}
  /\ resp.status \in {0, StatusOK, StatusBadRequest, StatusMethodNotAllowed}
  /\ invoked \in Algorithms \cup {"none"}

\* ------------------------------------------------------------------------
\* Properties
\* ------------------------------------------------------------------------
Body == req.Body

\* drawHandler has answered, having called the rasterizer alg
Served(alg) == pc = "done" /\ invoked = alg

Abs(n) == IF n < 0 THEN -n ELSE n
Max(a, b) == IF a >= b THEN a ELSE b
Min(a, b) == IF a <= b THEN a ELSE b
Near(a, b) == Abs(a - b) <= 1

\* the pixels of a sequence of points, order and multiplicity ignored
PixelSet(pts) == {<<pts[i].X, pts[i].Y>> : i \in DOMAIN pts}

\* the ideal line from (0,0) to (dx,dy) passes exactly midway between two
\* pixels at some step strictly between its ends
HasTie(dx, dy) ==
  \E i \in 1..(Max(dx, dy) - 1) : (2 * i * Min(dx, dy)) % (2 * Max(dx, dy)) = Max(dx, dy)

\* the points bresenhamLine returns for the request's line taken from B to A
Backward == bresenhamLine(Body.X2, Body.Y2, Body.X1, Body.Y1)

\* C1 (as stated): the pixels bresenhamLine emits from A to B are the
\* pixels it emits from B to A, order and multiplicity ignored.
C1_SameSetBothWays ==
  Served("bresenham_line") => PixelSet(resp.points) = PixelSet(Backward)

\* C1 (amended): from A to B and from B to A bresenhamLine emits the same
\* number of pixels, the k-th pixel of one within one pixel of the k-th
\* pixel from the end of the other; the two pixel sets are equal exactly
\* when the ideal line never passes midway between two pixels.
C1_SameSetUnlessTie ==
  Served("bresenham_line") =>
    LET f == resp.points
        b == Backward
        n == Len(f)
    IN  /\ Len(b) = n
        /\ n = Max(Abs(Body.X2 - Body.X1), Abs(Body.Y2 - Body.Y1)) + 1
        /\ \A k \in 1..n : /\ Near(f[k].X, b[n + 1 - k].X)
                           /\ Near(f[k].Y, b[n + 1 - k].Y)
        /\ (PixelSet(f) = PixelSet(b))
             <=> ~HasTie(Abs(Body.X2 - Body.X1), Abs(Body.Y2 - Body.Y1))

\* a line with a tie has been drawn: its two directions differ
C1_Witness ==
  /\ Served("bresenham_line")
  /\ HasTie(Abs(Body.X2 - Body.X1), Abs(Body.Y2 - Body.Y1))
  /\ PixelSet(resp.points) # PixelSet(Backward)

\* C2: for radius 0 every point bresenhamCircle emits is the center.
C2_ZeroRadiusOnlyCenter ==
  (Served("bresenham_circle") /\ Body.R = 0) =>
    \A i \in DOMAIN resp.points :
      resp.points[i].X = Body.X1 /\ resp.points[i].Y = Body.Y1

OpaqueAlgorithms == {"step", "dda", "bresenham_line", "bresenham_circle", "casteljau"}

\* C3: every sample of a rasterizer without antialiasing has alpha 1.0.
C3_OpaqueAlphaOne ==
  (pc = "done" /\ invoked \in OpaqueAlgorithms) =>
    \A i \in DOMAIN resp.points : resp.points[i].Alpha = FOne

\* C4 (as stated): for a horizontal line every sample of wuLine in the row
\* y1 has alpha 1.0, the two endpoint columns included.
C4_HorizontalMainRowOne ==
  (Served("wu") /\ Body.Y1 = Body.Y2) =>
    \A i \in DOMAIN resp.points :
      resp.points[i].Y = Body.Y1 => resp.points[i].Alpha = FOne

\* C4 (amended): for a horizontal line every sample of wuLine lies in the
\* row y1 or the row y1 + 1; in the row y1 it has alpha 1.0 at the columns
\* strictly between the endpoint columns and alpha 0.5 at the two endpoint
\* columns; in the row y1 + 1 it has alpha 0, the endpoint columns included.
C4_HorizontalInteriorOne ==
  (Served("wu") /\ Body.Y1 = Body.Y2) =>
    \A i \in DOMAIN resp.points :
      /\ resp.points[i].Y \in {Body.Y1, Body.Y1 + 1}
      /\ resp.points[i].Y = Body.Y1 =>
           resp.points[i].Alpha =
             (IF resp.points[i].X \in {Body.X1, Body.X2} THEN FHalf ELSE FOne)
      /\ resp.points[i].Y = Body.Y1 + 1 => resp.points[i].Alpha = FZero(0)

\* a horizontal line with columns between its endpoint columns has been
\* drawn: the row y1 has a sample of alpha 1.0 and one of alpha 0.5, the row
\* y1 + 1 has a sample at an endpoint column and one between them
C4_Witness ==
  /\ Served("wu")
  /\ Body.Y1 = Body.Y2
  /\ Abs(Body.X2 - Body.X1) >= 2
  /\ \E i \in DOMAIN resp.points :
       resp.points[i].Y = Body.Y1 /\ resp.points[i].Alpha = FOne
  /\ \E i \in DOMAIN resp.points :
       resp.points[i].Y = Body.Y1 /\ resp.points[i].Alpha = FHalf
  /\ \E i \in DOMAIN resp.points :
       resp.points[i].Y = Body.Y1 + 1 /\ resp.points[i].X = Body.X1
  /\ \E i \in DOMAIN resp.points :
       /\ resp.points[i].Y = Body.Y1 + 1
       /\ resp.points[i].X \notin {Body.X1, Body.X2}

\* C5: for a line of length zero dda answers with exactly one sample, the
\* point (x1,y1); the division by steps = 0 does not make it fail.
C5_DdaZeroLength ==
  (pc = "done" /\ req.Method = "POST" /\ req.Decodes /\ Body.Algorithm = "dda"
     /\ Body.X1 = Body.X2 /\ Body.Y1 = Body.Y2) =>
    /\ invoked = "dda"
    /\ resp.status = StatusOK
    /\ resp.json
    /\ Len(resp.points) = 1
    /\ resp.points[1].X = Body.X1
    /\ resp.points[1].Y = Body.Y1

\* dda has drawn a line of length zero
C5_Witness ==
  /\ Served("dda")
  /\ Body.X1 = Body.X2
  /\ Body.Y1 = Body.Y2
  /\ Len(resp.points) = 1

OpaqueLines == {"step", "dda", "bresenham_line"}

\* the first point of pts is (fx,fy) and the last is (lx,ly): exactly, or
\* within one per coordinate
EndsAt(pts, fx, fy, lx, ly, exact) ==
  /\ Len(pts) >= 1
  /\ IF exact
     THEN /\ pts[1].X = fx /\ pts[1].Y = fy
          /\ pts[Len(pts)].X = lx /\ pts[Len(pts)].Y = ly
     ELSE /\ Near(pts[1].X, fx) /\ Near(pts[1].Y, fy)
          /\ Near(pts[Len(pts)].X, lx) /\ Near(pts[Len(pts)].Y, ly)

\* C6 (as stated): stepByStep, dda and bresenhamLine emit (x1,y1) first and
\* (x2,y2) last, bresenhamLine exactly and the other two within one per
\* coordinate, vertical lines in descending y order included.
C6_StartFirstEndLast ==
  (pc = "done" /\ invoked \in OpaqueLines) =>
    EndsAt(resp.points, Body.X1, Body.Y1, Body.X2, Body.Y2, invoked = "bresenham_line")

\* C6 (amended): as stated, except that stepByStep emits a vertical line
\* given in descending y order (x1 = x2, y1 > y2) in ascending order: its
\* first pixel is the end (x2,y2) and its last pixel is the start (x1,y1).
C6_EndsExceptDescendingVertical ==
  (pc = "done" /\ invoked \in OpaqueLines) =>
    IF invoked = "step" /\ Body.X1 = Body.X2 /\ Body.Y1 > Body.Y2
    THEN EndsAt(resp.points, Body.X2, Body.Y2, Body.X1, Body.Y1, TRUE)
    ELSE EndsAt(resp.points, Body.X1, Body.Y1, Body.X2, Body.Y2,
                invoked = "bresenham_line")

\* stepByStep has drawn a vertical line given in descending y order
C6_Witness ==
  /\ Served("step")
  /\ Body.X1 = Body.X2
  /\ Body.Y1 - Body.Y2 >= 2
  /\ resp.points[1].Y = Body.Y2

\* v lies between a and b, whichever is larger
Between(v, a, b) == Min(a, b) <= v /\ v <= Max(a, b)

\* C7: the loop of bresenhamLine terminates for every pair of endpoints,
\* dx = dy = 0 included: the current point eventually is (x2,y2), that
\* point is emitted and the loop ends right after it; the current point
\* never steps past the target on either axis.
C7_BresenhamTerminates ==
  /\ <>(pc = "done" /\ out # <<>> /\ out[Len(out)] = Point(Body.X2, Body.Y2))
  /\ [](/\ Between(cur.x, Body.X1, Body.X2)
        /\ Between(cur.y, Body.Y1, Body.Y2)
        /\ \A i \in DOMAIN out :
             out[i] = Point(Body.X2, Body.Y2) => (i = Len(out) /\ pc = "done"))

\* the loop has ended after several passes
C7_Witness ==
  /\ pc = "done"
  /\ Len(out) > 3
  /\ Body.X1 # Body.X2
  /\ Body.Y1 # Body.Y2

\* wuLine's view of the request: steep, and the endpoints after the two
\* exchanges (major axis first, left to right)
WuSteep == Abs(Body.Y2 - Body.Y1) > Abs(Body.X2 - Body.X1)
WuA == IF WuSteep THEN <<Body.Y1, Body.X1>> ELSE <<Body.X1, Body.Y1>>
WuB == IF WuSteep THEN <<Body.Y2, Body.X2>> ELSE <<Body.X2, Body.Y2>>
WuFirst == IF WuB[1] < WuA[1] THEN WuB ELSE WuA
WuLast == IF WuB[1] < WuA[1] THEN WuA ELSE WuB
WuSlope ==
  IF WuLast[1] = WuFirst[1] THEN FOne
  ELSE FDiv(FFromInt(WuLast[2] - WuFirst[2]), FFromInt(WuLast[1] - WuFirst[1]))

\* intery at the k-th step after the first endpoint pixel
RECURSIVE WuIntery(_)
WuIntery(k) ==
  IF k = 1 THEN FAdd(FFromInt(WuFirst[2]), WuSlope)
  ELSE FAdd(WuIntery(k - 1), WuSlope)

WuMajor(p) == IF WuSteep THEN p.Y ELSE p.X
WuMinor(p) == IF WuSteep THEN p.X ELSE p.Y

\* C8: at every step strictly between the two endpoint pixels along the
\* major axis wuLine emits exactly two samples, at the minor positions
\* floor(intery) and floor(intery)+1 of that step (x and y exchanged back
\* for a steep line), and their alphas sum to 1.0.
C8_WuPairs ==
  Served("wu") =>
    LET n == Max(WuLast[1] - WuFirst[1] - 1, 0)
    IN  /\ Len(resp.points) = 4 + 2 * n
        /\ \A k \in 1..n :
             LET a == resp.points[4 + 2 * k - 1]
                 b == resp.points[4 + 2 * k]
             IN  /\ WuMajor(a) = WuFirst[1] + k
                 /\ WuMajor(b) = WuFirst[1] + k
                 /\ WuMinor(a) = FloorInt(WuIntery(k))
                 /\ WuMinor(b) = FloorInt(WuIntery(k)) + 1
                 /\ FAdd(a.Alpha, b.Alpha) = FOne

\* wuLine has drawn a steep line with a step whose coverage is split
C8_Witness ==
  /\ Served("wu")
  /\ WuSteep
  /\ Len(resp.points) >= 8
  /\ \E i \in 5..Len(resp.points) :
       /\ resp.points[i].Alpha # FOne
       /\ ~FIsZero(resp.points[i].Alpha)

\* round(sqrt(n)) for a natural number n
RoundSqrt(n) ==
  CHOOSE k \in 0..(n + 1) :
    /\ (k = 0 \/ (2 * k - 1) * (2 * k - 1) <= 4 * n)
    /\ 4 * n < (2 * k + 1) * (2 * k + 1)

DistSq(p) ==
  (p.X - Body.X1) * (p.X - Body.X1) + (p.Y - Body.Y1) * (p.Y - Body.Y1)

\* C9: for every radius r >= 1 every point bresenhamCircle emits is at a
\* distance from the center that rounds to r-1 or to r.
C9_CircleDistance ==
  (Served("bresenham_circle") /\ Body.R >= 1) =>
    \A i \in DOMAIN resp.points :
      RoundSqrt(DistSq(resp.points[i])) \in {Body.R - 1, Body.R}

\* a circle of radius 5 has been drawn, with points off the axes
C9_Witness ==
  /\ Served("bresenham_circle")
  /\ Body.R = 5
  /\ \E i \in DOMAIN resp.points : DistSq(resp.points[i]) # Body.R * Body.R

KnownNames ==
  {"step", "dda", "bresenham_line", "bresenham_circle", "casteljau", "wu"}

\* the points of the rasterizer named by the request, called with the
\* fields it takes
Selected ==
  IF Body.Algorithm = "step" THEN stepByStep(Body.X1, Body.Y1, Body.X2, Body.Y2)
  ELSE IF Body.Algorithm = "dda" THEN dda(Body.X1, Body.Y1, Body.X2, Body.Y2)
  ELSE IF Body.Algorithm = "bresenham_line"
       THEN bresenhamLine(Body.X1, Body.Y1, Body.X2, Body.Y2)
  ELSE IF Body.Algorithm = "bresenham_circle"
       THEN bresenhamCircle(Body.X1, Body.Y1, Body.R)
  ELSE IF Body.Algorithm = "casteljau"
       THEN deCasteljau(Body.X1, Body.Y1, Body.X2, Body.Y2,
                        Body.X3, Body.Y3, Body.X4, Body.Y4)
  ELSE wuLine(Body.X1, Body.Y1, Body.X2, Body.Y2)

\* the answer the claim describes for the request
Dispatched ==
  IF Body.Algorithm \notin KnownNames
  THEN /\ invoked = "none"
       /\ resp.status = StatusBadRequest
       /\ ~resp.json
       /\ resp.points = <<>>
  ELSE /\ invoked = Body.Algorithm
       /\ resp.json
       /\ resp.points = Selected

\* C10 (as stated): a request with an unrecognised algorithm name is
\* answered 400 with no points and no rasterizer called; one with a
\* recognised name is answered with exactly the points of its rasterizer.
C10_EveryRequestDispatched == pc = "done" => Dispatched

\* C10 (amended): the same for every POST request whose body decodes; a
\* request of another method is answered 405, and a POST request whose
\* body does not decode 400, both with no points and no rasterizer called.
C10_PostRequestDispatched ==
  pc = "done" =>
    IF req.Method # "POST"
    THEN invoked = "none" /\ resp = ErrorResponse(StatusMethodNotAllowed)
    ELSE IF ~req.Decodes
    THEN invoked = "none" /\ resp = ErrorResponse(StatusBadRequest)
    ELSE Dispatched

\* a POST request has been answered with the points of dda, and they are
\* not what stepByStep would have returned
C10_Witness ==
  /\ Served("dda")
  /\ resp.status = StatusOK
  /\ resp.points # stepByStep(Body.X1, Body.Y1, Body.X2, Body.Y2)

\* C11: for every four control points deCasteljau emits exactly 201 samples,
\* one for each t = 0, 0.005, ..., 1.0, the first being the first control
\* point (x1,y1) and the last the fourth control point (x4,y4).
C11_Samples201 ==
  Served("casteljau") =>
    /\ Len(resp.points) = 201
    /\ resp.points[1].X = Body.X1
    /\ resp.points[1].Y = Body.Y1
    /\ resp.points[Len(resp.points)].X = Body.X4
    /\ resp.points[Len(resp.points)].Y = Body.Y4

\* a is a number of the closed interval [0,1]
InUnit(a) == a.k = "fin" /\ FLe(FZero(0), a) /\ FLe(a, FOne)

\* C12: for every pair of integer endpoints (any direction, steep or
\* shallow, negative coordinates, zero length) every sample wuLine emits,
\* the four endpoint samples included, has alpha in [0,1].
C12_WuAlphaInUnit ==
  Served("wu") => \A i \in DOMAIN resp.points : InUnit(resp.points[i].Alpha)

\* wuLine has drawn a line through negative coordinates with a step whose
\* coverage is split between two pixels
C12_Witness ==
  /\ Served("wu")
  /\ Body.X1 < 0
  /\ Body.Y1 < 0
  /\ Body.Y2 < 0
  /\ \E i \in 5..Len(resp.points) :
       /\ FLt(FZero(0), resp.points[i].Alpha)
       /\ FLt(resp.points[i].Alpha, FHalf)

\* C13: bresenhamLine emits exactly max(|x2-x1|, |y2-y1|) + 1 pixels; two
\* consecutive pixels differ by exactly 1 along the major axis and by at
\* most 1 along the minor axis; every pixel lies in the bounding box of the
\* two endpoints.
C13_BresenhamShape ==
  Served("bresenham_line") =>
    LET p  == resp.points
        dx == Abs(Body.X2 - Body.X1)
        dy == Abs(Body.Y2 - Body.Y1)
    IN  /\ Len(p) = Max(dx, dy) + 1
        /\ \A i \in 1..(Len(p) - 1) :
             /\ dx >= dy => (Abs(p[i + 1].X - p[i].X) = 1 /\ Abs(p[i + 1].Y - p[i].Y) <= 1)
             /\ dy >= dx => (Abs(p[i + 1].Y - p[i].Y) = 1 /\ Abs(p[i + 1].X - p[i].X) <= 1)
        /\ \A i \in DOMAIN p :
             /\ Between(p[i].X, Body.X1, Body.X2)
             /\ Between(p[i].Y, Body.Y1, Body.Y2)

\* bresenhamLine has drawn a steep line downwards and to the left, with
\* steps that move along y only and steps that move along both axes
C13_Witness ==
  /\ Served("bresenham_line")
  /\ Body.Y1 - Body.Y2 >= 3
  /\ Body.X1 > Body.X2
  /\ \E i \in 1..(Len(resp.points) - 1) : resp.points[i + 1].X = resp.points[i].X
  /\ \E i \in 1..(Len(resp.points) - 1) : resp.points[i + 1].X # resp.points[i].X

\* the pixels of a sequence of points, in order
Pixels(pts) == [i \in DOMAIN pts |-> <<pts[i].X, pts[i].Y>>]

Reverse(seq) == [i \in DOMAIN seq |-> seq[Len(seq) + 1 - i]]

\* p/q rounded to the nearest integer, halves away from zero (q > 0)
RoundRatio(p, q) ==
  IF p >= 0 THEN (2 * p + q) \div (2 * q) ELSE -((q - 2 * p) \div (2 * q))

\* the samples (round(x1 + i*dx/steps), round(y1 + i*dy/steps)), i = 0..steps,
\* steps = max(|dx|,|dy|), computed exactly; the one sample (x1,y1) for steps = 0
IdealLine ==
  LET dx    == Body.X2 - Body.X1
      dy    == Body.Y2 - Body.Y1
      steps == Max(Abs(dx), Abs(dy))
  IN  IF steps = 0 THEN << <<Body.X1, Body.Y1>> >>
      ELSE [i \in 1..(steps + 1) |->
              << RoundRatio(Body.X1 * steps + (i - 1) * dx, steps),
                 RoundRatio(Body.Y1 * steps + (i - 1) * dy, steps) >>]

DescendingVertical == Body.X1 = Body.X2 /\ Body.Y1 > Body.Y2

\* the pixels stepByStep and dda return for the request's line when their
\* computation is carried out in exact arithmetic
StepExact == Pixels(stepByStepIn("exact", Body.X1, Body.Y1, Body.X2, Body.Y2))
DdaExact == Pixels(ddaIn("exact", Body.X1, Body.Y1, Body.X2, Body.Y2))

\* C14: in exact arithmetic stepByStep and dda return the same pixels in the
\* same order, sample i of both being (round(x1 + i*dx/steps),
\* round(y1 + i*dy/steps)) for i = 0..steps, steps = max(|dx|,|dy|); for a
\* vertical line given with y1 > y2 dda returns these samples and stepByStep
\* returns them in the opposite order, so the two differ in order only.
C14_ExactStepEqualsDda ==
  Served("step") =>
    /\ DdaExact = IdealLine
    /\ IF DescendingVertical
       THEN StepExact = Reverse(DdaExact) /\ StepExact # DdaExact
       ELSE StepExact = DdaExact

\* stepByStep has drawn a steep line whose slope dy/dx = 4/3 is no binary
\* fraction and whose middle sample lies midway between two pixels: there
\* the program, computing in float64, returns another pixel than the exact
\* computation
C14_Witness ==
  /\ Served("step")
  /\ Abs(Body.X2 - Body.X1) = 3
  /\ Abs(Body.Y2 - Body.Y1) = 4
  /\ HasTie(3, 4)
  /\ Len(StepExact) = 5
  /\ Pixels(resp.points) # StepExact

====
